---- MODULE Spec2Model ----
(***************************************************************************)
(* Model of src/app.py: a Streamlit script that loads a pickled language   *)
(* classifier and vectorizer through st.cache_resource, renders a text     *)
(* area and a "Detect & Reply" button, and, in the script run a button     *)
(* press triggers, vectorizes the text, predicts a label and shows the     *)
(* canned reply for it.                                                    *)
(*                                                                         *)
(* The script is re-executed top to bottom on every UI event; the model    *)
(* follows one browser session, one script statement group per step (pc).  *)
(* Process-wide state is the st.cache_resource entry and the two artifact  *)
(* files on disk; session state is the widget values.                      *)
(***************************************************************************)
EXTENDS Naturals, Sequences, FiniteSets

VARIABLES
    files,              \* the artifact files on disk (environment)
    cache,              \* the st.cache_resource entry of load_resources()
    session_state,      \* st.session_state: widget values of the session
    pc,                 \* position of the current script run
    model,              \* script global: the classifier load_resources returned
    vectorizer,         \* script global: the vectorizer load_resources returned
    user_input,         \* script local: value returned by st.text_area
    text_vector,        \* script local: vectorizer.transform([user_input])
    predicted_language, \* script local: model.predict(text_vector)[0]
    reply,              \* script local: responses.get(...)
    display,            \* elements the current script run has emitted
    trigger,            \* the UI event that started the current run
    invoked,            \* artifacts whose methods the current run has called
    loadAttempts,       \* executions of load_resources' body so far
    loadSuccesses,      \* executions of load_resources' body that returned
    failedLoad,         \* the artifact and cause of the current run's failed load
    mark                \* one earlier request and its outcome, as observed

vars == <<files, cache, session_state, pc, model, vectorizer, user_input, text_vector,
          predicted_language, reply, display, trigger, invoked,
          loadAttempts, loadSuccesses, failedLoad, mark>>

-----------------------------------------------------------------------------
(* Bounds *)

\* longest text typed into the text area
MaxLen == 2
\* load attempts explored while the cache is empty
MaxLoadAttempts == 2

-----------------------------------------------------------------------------
(* Texts and str.strip() *)

Whitespace == {" "}
Chars == {" ", "a", "b"}

RECURSIVE SeqsUpTo(_)
SeqsUpTo(n) ==
    IF n = 0 THEN {<<>>}
    ELSE LET shorter == SeqsUpTo(n - 1)
         IN  shorter \cup {Append(s, c) : s \in {t \in shorter : Len(t) = n - 1}, c \in Chars}

Texts == SeqsUpTo(MaxLen)

RECURSIVE lstrip(_)
lstrip(s) ==
    IF s = <<>> THEN <<>>
    ELSE IF Head(s) \in Whitespace THEN lstrip(Tail(s))
    ELSE s

RECURSIVE rstrip(_)
rstrip(s) ==
    IF s = <<>> THEN <<>>
    ELSE IF s[Len(s)] \in Whitespace THEN rstrip(SubSeq(s, 1, Len(s) - 1))
    ELSE s

\* str.strip(): leading and trailing whitespace removed
strip(s) == rstrip(lstrip(s))

Count(s, c) == Cardinality({i \in 1..Len(s) : s[i] = c})

-----------------------------------------------------------------------------
(* The Reply Table (responses) and its lookup.  Replies that hold          *)
(* non-ASCII characters are written as the source line that holds them.    *)

responses ==
    [English    |-> "Hello! How can I help you?",
     Hindi      |-> "src/app.py:88",
     French     |-> "Bonjour ! Comment puis-je vous aider ?",
     Spanish    |-> "src/app.py:90",
     German     |-> "Hallo! Wie kann ich Ihnen helfen?",
     Arabic     |-> "src/app.py:92",
     Russian    |-> "src/app.py:93",
     Chinese    |-> "src/app.py:94",
     Japanese   |-> "src/app.py:95",
     Korean     |-> "src/app.py:96",
     Portuguese |-> "src/app.py:97",
     Italian    |-> "Ciao! Come posso aiutarti?",
     Turkish    |-> "src/app.py:99",
     Tamil      |-> "src/app.py:100",
     Urdu       |-> "src/app.py:101",
     Thai       |-> "src/app.py:102",
     Dutch      |-> "Hallo! Hoe kan ik je helpen?",
     Estonian   |-> "Tere! Kuidas ma saan aidata?",
     Romanian   |-> "Salut! Cum te pot ajuta?",
     Persian    |-> "src/app.py:106",
     Indonesian |-> "Halo! Bagaimana saya bisa membantu?",
     Latin      |-> "Salve! Quomodo te adiuvare possum?"]

FallbackReply == "Sorry, I don't have a canned response for this language yet."

\* Variant: the key is matched without regard to the case of its first letter.
Capitalized(label) ==
    IF label = "french" THEN "French"
    ELSE IF label = "english" THEN "English"
    ELSE label

ResponsesGetIgnoringCase(label) ==
    IF Capitalized(label) \in DOMAIN responses
    THEN responses[Capitalized(label)] ELSE FallbackReply

\* dict.get(key, default)
ResponsesGet(label) ==
    IF label \in DOMAIN responses THEN responses[label] ELSE FallbackReply

-----------------------------------------------------------------------------
(* The pickled artifacts: opaque objects, each a deterministic function.   *)

Classifiers == {"clfMapped", "clfUnmapped"}
Vectorizers == {"vecCount", "vecStrict"}
FileFaults  == {"missing", "corrupt"}

Raised(msg)   == [ok |-> FALSE, value |-> <<>>, label |-> "", msg |-> msg]
Returned(v)   == [ok |-> TRUE,  value |-> v,    label |-> "", msg |-> ""]
Predicted(l)  == [ok |-> TRUE,  value |-> <<>>, label |-> l,  msg |-> ""]

\* vectorizer.transform([doc]): one row of feature counts, or an exception
VectorizerTransform(v, doc) ==
    IF v = "vecStrict" /\ Count(doc, " ") > 0
    THEN Raised("empty vocabulary token")
    ELSE Returned(<<Count(doc, "a"), Count(doc, "b")>>)

\* model.predict(X)[0]: the label of the only row, or an exception
ModelPredict(m, X) ==
    IF m = "clfMapped"
    THEN IF X[1] = X[2] THEN Raised("X has an ambiguous row")
         ELSE IF X[1] > X[2] THEN Predicted("French")
         ELSE Predicted("English")
    ELSE IF X[1] > 0 THEN Predicted("Klingon")
         ELSE Predicted("french")

-----------------------------------------------------------------------------
(* Display elements *)

NotFoundMessage ==
    "Error: Model or Vectorizer file not found. Please ensure language_model.pkl and vectorizer.pkl are in the correct directory."
LoadErrorPrefix == "Error loading resources:"
PredictionErrorPrefix == "An error occurred during prediction:"
EmptyWarning == "Please enter some text in the message box above."
DetectedPrefix == "Language Detected:"
ReplyHeading == "Chatbot Reply"

Element(kind, body, arg) == [kind |-> kind, body |-> body, arg |-> arg]

\* the message of the exception pickle.load raises on an undeserializable file
UnpicklingMessage == "invalid load key"

NoCache == [loaded |-> FALSE, model |-> "", vectorizer |-> ""]
NoFailure == [artifact |-> "", cause |-> ""]
NoMark == [set |-> FALSE, text |-> <<>>, shown |-> <<>>, model |-> "", vectorizer |-> ""]

-----------------------------------------------------------------------------
Init ==
    /\ files \in [model : Classifiers \cup FileFaults,
                  vectorizer : Vectorizers \cup FileFaults]
    /\ cache = NoCache
    /\ session_state = [user_input_area |-> <<>>, detect_button |-> FALSE]
    /\ pc = "idle"
    /\ model = ""
    /\ vectorizer = ""
    /\ user_input = <<>>
    /\ text_vector = <<>>
    /\ predicted_language = ""
    /\ reply = ""
    /\ display = <<>>
    /\ trigger = "none"
    /\ invoked = {}
    /\ loadAttempts = 0
    /\ loadSuccesses = 0
    /\ failedLoad = NoFailure
    /\ mark = NoMark

-----------------------------------------------------------------------------
(* UI events: each one starts a script run from the top of the file.       *)

\* Runs are explored while the artifacts are cached or load attempts remain.
CanRun == cache.loaded \/ loadAttempts < MaxLoadAttempts

StartRun(ev, widgets) ==
    /\ pc = "idle"
    /\ CanRun
    /\ session_state' = widgets
    /\ trigger' = ev
    /\ pc' = "load_resources"
    /\ model' = ""
    /\ vectorizer' = ""
    /\ user_input' = <<>>
    /\ text_vector' = <<>>
    /\ predicted_language' = ""
    /\ reply' = ""
    /\ display' = <<>>
    /\ invoked' = {}
    /\ failedLoad' = NoFailure
    /\ UNCHANGED <<files, cache, loadAttempts, loadSuccesses, mark>>

\* The page is rendered or reloaded: no widget changed, the button reads False.
PageRender ==
    StartRun("render", [session_state EXCEPT !.detect_button = FALSE])

\* The text area's value changes: a rerun in which the button reads False.
EditText ==
    \E t \in Texts :
        /\ t # session_state.user_input_area
        /\ StartRun("edit", [user_input_area |-> t, detect_button |-> FALSE])

\* "Detect & Reply" is pressed, with the text area holding t: the button
\* reads True in the run this press triggers, and only in it.
PressButton ==
    \E t \in Texts :
        StartRun("button", [user_input_area |-> t, detect_button |-> TRUE])

\* The operator replaces, removes or damages an artifact file.  The files are
\* read by load_resources' body only, so changes are followed until the load.
ReplaceFile ==
    /\ pc = "idle"
    /\ ~cache.loaded
    /\ \E name \in {"model", "vectorizer"} :
         \E content \in (IF name = "model" THEN Classifiers ELSE Vectorizers) \cup FileFaults :
            /\ content # files[name]
            /\ files' = [files EXCEPT ![name] = content]
    /\ UNCHANGED <<cache, session_state, pc, user_input, text_vector,
                   predicted_language, reply, display, trigger, model, vectorizer, invoked,
                   loadAttempts, loadSuccesses, failedLoad, mark>>

-----------------------------------------------------------------------------
(* load_resources under @st.cache_resource, and model, vectorizer = ...    *)

\* Variant: load_resources without the @st.cache_resource decorator.
CacheHitNever == FALSE

\* @st.cache_resource: the body runs only when no value is cached; a call
\* that raises (st.stop() included) caches nothing.
CacheHit == cache.loaded

\* pickle.load(open(file, "rb")) on the two files, the model's first:
\* the first file that fails, or none.
FirstFault ==
    IF files.model \in FileFaults
    THEN [artifact |-> "model", cause |-> files.model]
    ELSE IF files.vectorizer \in FileFaults
    THEN [artifact |-> "vectorizer", cause |-> files.vectorizer]
    ELSE NoFailure

\* the message of the FileNotFoundError open() raises
NoSuchFile(artifact) ==
    IF artifact = "model"
    THEN "No such file or directory: language_model.pkl"
    ELSE "No such file or directory: vectorizer.pkl"

\* Variant: no except FileNotFoundError branch; every failure reaches
\* except Exception and shows the exception's own message.
LoadDiagnosticNamingFile(artifact, cause) ==
    Element("error", LoadErrorPrefix,
            IF cause = "missing" THEN NoSuchFile(artifact) ELSE UnpicklingMessage)

\* the st.error of the except branch the failure reaches
LoadDiagnostic(artifact, cause) ==
    IF cause = "missing"
    THEN Element("error", NotFoundMessage, "")
    ELSE Element("error", LoadErrorPrefix, UnpicklingMessage)

\* Variant: the except branches show the error and do not call st.stop().
AfterLoadFailureNoStop == "widgets"

\* st.stop() after the st.error: the script run ends, nothing below it runs
AfterLoadFailure == "idle"

LoadResources ==
    /\ pc = "load_resources"
    /\ IF CacheHit
       THEN /\ model' = cache.model
            /\ vectorizer' = cache.vectorizer
            /\ pc' = "widgets"
            /\ UNCHANGED <<cache, display, loadAttempts, loadSuccesses,
                           failedLoad>>
       ELSE /\ loadAttempts' = loadAttempts + 1
            /\ IF FirstFault = NoFailure
               THEN /\ cache' = [loaded |-> TRUE, model |-> files.model,
                                 vectorizer |-> files.vectorizer]
                    /\ model' = files.model
                    /\ vectorizer' = files.vectorizer
                    /\ loadSuccesses' = loadSuccesses + 1
                    /\ pc' = "widgets"
                    /\ UNCHANGED <<display, failedLoad>>
               ELSE /\ display' = Append(display,
                                    LoadDiagnostic(FirstFault.artifact, FirstFault.cause))
                    /\ failedLoad' = FirstFault
                    /\ pc' = AfterLoadFailure
                    /\ UNCHANGED <<cache, model, vectorizer, loadSuccesses>>
    /\ UNCHANGED <<files, session_state, user_input, text_vector,
                   predicted_language, reply, trigger, invoked, mark>>

-----------------------------------------------------------------------------
(* The widgets and the logic under the button                              *)

\* user_input = st.text_area(..., key="user_input_area"); st.button(...)
Widgets ==
    /\ pc = "widgets"
    /\ user_input' = session_state.user_input_area
    /\ pc' = "handler"
    /\ UNCHANGED <<files, cache, session_state, text_vector, predicted_language,
                   reply, display, trigger, model, vectorizer, invoked, loadAttempts,
                   loadSuccesses, failedLoad, mark>>

\* Variant: the logic is guarded by the text, not by the button.
DetectRequestedOnAnyText == user_input # <<>>

\* if st.session_state.get('detect_button'):
DetectRequested == session_state.detect_button

\* Variant: the text is compared without .strip().
IsBlankNoStrip(text) == text = <<>>

\* if user_input.strip() == "":
IsBlank(text) == strip(text) = <<>>

Handler ==
    /\ pc = "handler"
    /\ IF DetectRequested
       THEN IF IsBlank(user_input)
            THEN /\ display' = Append(display, Element("warning", EmptyWarning, ""))
                 /\ pc' = "footer"
            ELSE /\ pc' = "transform"
                 /\ UNCHANGED display
       ELSE /\ pc' = "footer"
            /\ UNCHANGED display
    /\ UNCHANGED <<files, cache, session_state, user_input, text_vector,
                   predicted_language, reply, trigger, model, vectorizer, invoked, loadAttempts,
                   loadSuccesses, failedLoad, mark>>

\* Variant: no try/except; the exception ends the run, Streamlit shows it.
ExceptHandlerUncaught(msg) ==
    /\ display' = Append(display, Element("exception", msg, ""))
    /\ pc' = "idle"
    /\ UNCHANGED <<cache, text_vector, predicted_language, reply>>

\* Variant: the except branch also drops the cached artifacts.
ExceptHandlerClearingCache(msg) ==
    /\ display' = Append(display, Element("error", PredictionErrorPrefix, msg))
    /\ pc' = "footer"
    /\ cache' = NoCache
    /\ UNCHANGED <<text_vector, predicted_language, reply>>

\* Variant: the except branch also shows the fallback reply.
ExceptHandlerWithFallbackReply(msg) ==
    /\ display' = display \o <<Element("error", PredictionErrorPrefix, msg),
                               Element("info", FallbackReply, "")>>
    /\ pc' = "footer"
    /\ UNCHANGED <<cache, text_vector, predicted_language, reply>>

\* except Exception as e: st.error(f"An error occurred during prediction: {e}")
ExceptHandler(msg) ==
    /\ display' = Append(display, Element("error", PredictionErrorPrefix, msg))
    /\ pc' = "footer"
    /\ UNCHANGED <<cache, text_vector, predicted_language, reply>>

\* text_vector = vectorizer.transform([user_input])
Transform ==
    /\ pc = "transform"
    /\ invoked' = invoked \cup {"vectorizer"}
    /\ LET r == VectorizerTransform(vectorizer, user_input)
       IN  IF r.ok
           THEN /\ text_vector' = r.value
                /\ pc' = "predict"
                /\ UNCHANGED <<cache, predicted_language, reply, display>>
           ELSE ExceptHandler(r.msg)
    /\ UNCHANGED <<files, session_state, user_input, trigger, model, vectorizer, loadAttempts,
                   loadSuccesses, failedLoad, mark>>

\* Variant: a successful prediction also updates the cached classifier
\* object in place (the cache hands every run the same object).
PredictUpdatingModel ==
    /\ pc = "predict"
    /\ invoked' = invoked \cup {"classifier"}
    /\ LET r == ModelPredict(model, text_vector)
       IN  IF r.ok
           THEN /\ predicted_language' = r.label
                /\ pc' = "lookup"
                /\ cache' = [cache EXCEPT !.model = "clfUnmapped"]
                /\ UNCHANGED <<text_vector, reply, display>>
           ELSE ExceptHandler(r.msg)
    /\ UNCHANGED <<files, session_state, user_input, trigger, model, vectorizer, loadAttempts,
                   loadSuccesses, failedLoad, mark>>

\* predicted_language = model.predict(text_vector)[0]
Predict ==
    /\ pc = "predict"
    /\ invoked' = invoked \cup {"classifier"}
    /\ LET r == ModelPredict(model, text_vector)
       IN  IF r.ok
           THEN /\ predicted_language' = r.label
                /\ pc' = "lookup"
                /\ UNCHANGED <<cache, text_vector, reply, display>>
           ELSE ExceptHandler(r.msg)
    /\ UNCHANGED <<files, session_state, user_input, trigger, model, vectorizer, loadAttempts,
                   loadSuccesses, failedLoad, mark>>

\* reply = responses.get(predicted_language, "Sorry, ...")
Lookup ==
    /\ pc = "lookup"
    /\ reply' = ResponsesGet(predicted_language)
    /\ pc' = "show_label"
    /\ UNCHANGED <<files, cache, session_state, user_input, text_vector,
                   predicted_language, display, trigger, model, vectorizer, invoked, loadAttempts,
                   loadSuccesses, failedLoad, mark>>

\* st.success(f"... Language Detected: *{predicted_language}*"); st.markdown(...)
ShowLabel ==
    /\ pc = "show_label"
    /\ display' = display \o <<Element("success", DetectedPrefix, predicted_language),
                               Element("markdown", ReplyHeading, "")>>
    /\ pc' = "show_reply"
    /\ UNCHANGED <<files, cache, session_state, user_input, text_vector,
                   predicted_language, reply, trigger, model, vectorizer, invoked, loadAttempts,
                   loadSuccesses, failedLoad, mark>>

\* st.info(reply)
ShowReply ==
    /\ pc = "show_reply"
    /\ display' = Append(display, Element("info", reply, ""))
    /\ pc' = "footer"
    /\ UNCHANGED <<files, cache, session_state, user_input, text_vector,
                   predicted_language, reply, trigger, model, vectorizer, invoked, loadAttempts,
                   loadSuccesses, failedLoad, mark>>

\* st.markdown("---"); st.caption(...): the run ends
Footer ==
    /\ pc = "footer"
    /\ pc' = "idle"
    /\ UNCHANGED <<files, cache, session_state, user_input, text_vector,
                   predicted_language, reply, display, trigger, model, vectorizer, invoked,
                   loadAttempts, loadSuccesses, failedLoad, mark>>

-----------------------------------------------------------------------------
(* Outcomes, read off the elements a run displayed                          *)

Kinds(d) == {d[i].kind : i \in 1..Len(d)}
Shown(d, kind) == {d[i] : i \in {j \in 1..Len(d) : d[j].kind = kind}}

LoadFailed(d) == \E e \in Shown(d, "error") : e.body \in {NotFoundMessage, LoadErrorPrefix}

\* Empty, Detected(label, reply), Failure(msg), or none yet
Outcome(d) ==
    IF \E e \in Shown(d, "warning") : e.body = EmptyWarning
        THEN [kind |-> "Empty", label |-> "", reply |-> "", msg |-> ""]
    ELSE IF \E e \in Shown(d, "error") : e.body = PredictionErrorPrefix
        THEN [kind |-> "Failure", label |-> "", reply |-> "",
              msg |-> (CHOOSE e \in Shown(d, "error") : e.body = PredictionErrorPrefix).arg]
    ELSE IF Shown(d, "success") # {} /\ Shown(d, "info") # {}
        THEN [kind |-> "Detected",
              label |-> (CHOOSE e \in Shown(d, "success") : TRUE).arg,
              reply |-> (CHOOSE e \in Shown(d, "info") : TRUE).body,
              msg |-> ""]
    ELSE [kind |-> "none", label |-> "", reply |-> "", msg |-> ""]

\* a run triggered by the button has finished with the artifacts loaded
RequestDone == pc = "idle" /\ trigger = "button" /\ ~LoadFailed(display)

\* An observer notes one finished request: its text and what it displayed.
Observe ==
    /\ RequestDone
    /\ ~mark.set
    /\ mark' = [set |-> TRUE, text |-> user_input, shown |-> display,
                model |-> model, vectorizer |-> vectorizer]
    /\ UNCHANGED <<files, cache, session_state, pc, user_input, text_vector,
                   predicted_language, reply, display, trigger, model, vectorizer, invoked,
                   loadAttempts, loadSuccesses, failedLoad>>

-----------------------------------------------------------------------------
Next ==
    \/ PageRender
    \/ EditText
    \/ PressButton
    \/ ReplaceFile
    \/ LoadResources
    \/ Widgets
    \/ Handler
    \/ Transform
    \/ Predict
    \/ Lookup
    \/ ShowLabel
    \/ ShowReply
    \/ Footer
    \/ Observe

Spec == Init /\ [][Next]_vars

-----------------------------------------------------------------------------
(* Properties                                                              *)

Blank(t)    == \A i \in 1..Len(t) : t[i] \in Whitespace
NonBlank(t) == \E i \in 1..Len(t) : t[i] \notin Whitespace

NoOutcome         == [kind |-> "none", label |-> "", reply |-> "", msg |-> ""]
Empty             == [kind |-> "Empty", label |-> "", reply |-> "", msg |-> ""]
Detected(l, r)    == [kind |-> "Detected", label |-> l, reply |-> r, msg |-> ""]
Failure(m)        == [kind |-> "Failure", label |-> "", reply |-> "", msg |-> m]

\* detect_and_reply(text) as section 4.2 of the specification words it,
\* over the artifacts m (classifier) and v (vectorizer)
DetectAndReply(text, m, v) ==
    IF Blank(text) THEN Empty
    ELSE LET tv == VectorizerTransform(v, text)
         IN  IF ~tv.ok THEN Failure(tv.msg)
             ELSE LET pr == ModelPredict(m, tv.value)
                  IN  IF ~pr.ok THEN Failure(pr.msg)
                      ELSE Detected(pr.label,
                                    IF \E k \in DOMAIN responses : k = pr.label
                                    THEN responses[pr.label]
                                    ELSE FallbackReply)

InRun == pc \notin {"idle"}
Loaded(m, v) == [loaded |-> TRUE, model |-> m, vectorizer |-> v]
BothArtifacts == {"vectorizer", "classifier"}

\* C1: when the button is pressed with a text that is empty once trimmed,
\* the run shows the "Please enter some text" warning, and at no point of
\* that run has the vectorizer or the classifier been called.
C1_EmptyInputWarnsWithoutInvoking ==
    (trigger = "button" /\ Blank(session_state.user_input_area)) =>
        /\ invoked = {}
        /\ pc \notin {"transform", "predict", "lookup", "show_label", "show_reply"}
        /\ (pc = "footer" \/ RequestDone) => Outcome(display) = Empty

C1_Witness ==
    /\ RequestDone
    /\ session_state.user_input_area = <<" ", " ">>
    /\ Outcome(display) = Empty

\* C2: a finished request with a non-blank text shows Detected or Failure;
\* when transform raises, or predict raises, it is Failure with that
\* exception's message, and the run goes on to its end.
C2_NonEmptyEndsDetectedOrFailure ==
    /\ (pc \in {"footer", "idle"} /\ trigger = "button" /\ ~LoadFailed(display)
            /\ NonBlank(user_input)) =>
        LET o  == Outcome(display)
            tv == VectorizerTransform(vectorizer, user_input)
        IN  /\ o.kind \in {"Detected", "Failure"}
            /\ ~tv.ok => o = Failure(tv.msg)
            /\ (tv.ok /\ ~ModelPredict(model, tv.value).ok) =>
                    o = Failure(ModelPredict(model, tv.value).msg)
    /\ "exception" \notin Kinds(display)

C2_Witness ==
    /\ RequestDone
    /\ NonBlank(user_input)
    /\ Outcome(display) = Failure("X has an ambiguous row")

\* C3: when the classifier returns label L, the request shows Detected(L, r)
\* with r the table's value for L if L is a key of the table (exact match)
\* and the fixed fallback string otherwise; never a Failure.
C3_ReplyIsTableValueOrFallback ==
    (RequestDone /\ NonBlank(user_input)) =>
        LET tv == VectorizerTransform(vectorizer, user_input)
            pr == ModelPredict(model, tv.value)
        IN  (tv.ok /\ pr.ok) =>
                /\ Outcome(display).kind = "Detected"
                /\ Outcome(display).label = pr.label
                /\ Outcome(display).reply =
                       IF \E k \in DOMAIN responses : k = pr.label
                       THEN responses[pr.label] ELSE FallbackReply

C3_Witness ==
    /\ RequestDone
    /\ Outcome(display) = Detected("french", FallbackReply)

\* C4 as claimed: once a load has failed, no later state has the vectorizer
\* or classifier invoked or a Detected outcome shown.
C4_Original_NoDetectionAfterFailedLoad ==
    loadAttempts > loadSuccesses =>
        /\ invoked = {}
        /\ Outcome(display).kind # "Detected"

\* C4 amended: the script run in which the load fails ends at the load: it
\* shows the load error only, calls neither artifact and shows no outcome;
\* and no statement below the load runs unless the artifacts are loaded.
C4_FailedLoadStopsTheRun ==
    /\ LoadFailed(display) =>
        /\ pc = "idle"
        /\ invoked = {}
        /\ Outcome(display) = NoOutcome
        /\ Kinds(display) = {"error"}
        /\ ~cache.loaded
    /\ pc \in {"widgets", "handler", "transform", "predict", "lookup",
               "show_label", "show_reply", "footer"} =>
        /\ cache.loaded
        /\ model \in Classifiers
        /\ vectorizer \in Vectorizers

C4_Witness ==
    /\ LoadFailed(display)
    /\ trigger = "button"
    /\ NonBlank(session_state.user_input_area)

\* the artifacts a diagnostic identifies as the one that failed
ArtifactsNamed(e) ==
    IF e.body = NotFoundMessage THEN {"model", "vectorizer"}
    ELSE IF e.arg = NoSuchFile("model") THEN {"model"}
    ELSE IF e.arg = NoSuchFile("vectorizer") THEN {"vectorizer"}
    ELSE {}

LoadDiagnosticShown == CHOOSE e \in Shown(display, "error") : TRUE

\* C5 as claimed: the diagnostic of a missing file names the artifact whose
\* file is missing, and that one only.
C5_Original_DiagnosticNamesFailedArtifact ==
    (LoadFailed(display) /\ failedLoad.cause = "missing") =>
        ArtifactsNamed(LoadDiagnosticShown) = {failedLoad.artifact}

\* C5 amended: a missing file of either artifact shows one fixed diagnostic
\* that names both files; any other load failure shows "Error loading
\* resources:" followed by the exception's message.
C5_MissingFileDiagnosticNamesBoth ==
    LoadFailed(display) =>
        /\ failedLoad.cause = "missing" =>
            /\ LoadDiagnosticShown = Element("error", NotFoundMessage, "")
            /\ ArtifactsNamed(LoadDiagnosticShown) = {"model", "vectorizer"}
        /\ failedLoad.cause = "corrupt" =>
            LoadDiagnosticShown = Element("error", LoadErrorPrefix, UnpicklingMessage)

C5_Witness ==
    /\ LoadFailed(display)
    /\ failedLoad = [artifact |-> "vectorizer", cause |-> "missing"]

\* C6: a run that was not started by the button calls neither artifact and
\* shows no warning, label, reply or error; a run started by the button that
\* reaches its end shows an outcome.
C6_DetectionOnlyOnButtonPress ==
    /\ trigger # "button" =>
        /\ invoked = {}
        /\ Outcome(display) = NoOutcome
        /\ pc \notin {"transform", "predict", "lookup", "show_label", "show_reply"}
        /\ (display # <<>> => LoadFailed(display))
    /\ RequestDone => Outcome(display) # NoOutcome

C6_Witness ==
    /\ mark.set
    /\ Outcome(mark.shown).kind = "Detected"
    /\ trigger = "edit"
    /\ pc = "idle"
    /\ NonBlank(user_input)
    /\ display = <<>>

\* C7 as claimed: the body of load_resources runs at most once.
C7_Original_AtMostOneLoadAttempt == loadAttempts <= 1

\* C7 amended: the artifacts are loaded successfully at most once; once they
\* are cached no step attempts a load or changes the cache, and every later
\* run gets the cached pair.  (A failed attempt caches nothing and is
\* repeated by the next run.)
C7_LoadedOnceAfterSuccess ==
    [][ /\ loadSuccesses' <= 1
        /\ cache.loaded => (cache' = cache /\ loadAttempts' = loadAttempts)
        /\ (pc = "load_resources" /\ pc' = "widgets") =>
               (model' = cache'.model /\ vectorizer' = cache'.vectorizer)
      ]_vars

C7_Witness ==
    /\ loadAttempts = 2
    /\ loadSuccesses = 1
    /\ mark.set
    /\ pc = "widgets"

\* C8: after a request that ended in Failure the cached artifacts are the
\* ones that request used, the next run can start, and every later request
\* shows what detect_and_reply gives for its text over those artifacts.
C8_FailureLeavesLaterRequestsIntact ==
    (mark.set /\ Outcome(mark.shown).kind = "Failure") =>
        /\ cache = Loaded(mark.model, mark.vectorizer)
        /\ pc = "idle" => CanRun
        /\ RequestDone =>
               Outcome(display) = DetectAndReply(user_input, mark.model, mark.vectorizer)

C8_Witness ==
    /\ mark.set
    /\ Outcome(mark.shown).kind = "Failure"
    /\ RequestDone
    /\ Outcome(display).kind = "Detected"

\* C9: a request with the same text as an earlier request shows the same
\* elements, whatever requests came in between.
C9_SameTextSameOutcome ==
    (mark.set /\ pc \in {"footer", "idle"} /\ trigger = "button"
        /\ ~LoadFailed(display) /\ user_input = mark.text) =>
            display = mark.shown

C9_Witness ==
    /\ mark.set
    /\ pc = "footer"
    /\ trigger = "button"
    /\ user_input = mark.text
    /\ Outcome(display).kind = "Detected"

\* C10: a run shows one kind of outcome: the label only after transform and
\* predict have returned and the reply is looked up, the reply only after
\* the label; an error alone; a warning alone.
C10_OneOutcomeNoPartialResult ==
    /\ "success" \in Kinds(display) =>
        /\ invoked = BothArtifacts
        /\ VectorizerTransform(vectorizer, user_input).ok
        /\ text_vector = VectorizerTransform(vectorizer, user_input).value
        /\ ModelPredict(model, text_vector).ok
        /\ predicted_language = ModelPredict(model, text_vector).label
        /\ reply # ""
    /\ "info" \in Kinds(display) => "success" \in Kinds(display)
    /\ "error" \in Kinds(display) => Kinds(display) = {"error"} /\ Len(display) = 1
    /\ "warning" \in Kinds(display) => Kinds(display) = {"warning"} /\ Len(display) = 1
    /\ RequestDone =>
        Kinds(display) \in {{"warning"}, {"error"}, {"success", "markdown", "info"}}

C10_Witness ==
    /\ RequestDone
    /\ invoked = BothArtifacts
    /\ Kinds(display) = {"error"}
    /\ Outcome(display).kind = "Failure"

====
